---- MODULE Spec2Model ----
(***************************************************************************)
(* Model of data_morph/shapes.py: the Shape classes, their distance        *)
(* methods and ShapeFactory.generate_shape.                                *)
(*                                                                         *)
(* Numbers.  A coordinate is an exact rational [n, d] (d > 0, lowest       *)
(* terms).  A distance is a real of the form |sqrt(sq) - r| with sq a      *)
(* rational and r a natural number, kept as the record [exc, sq, r]; a     *)
(* plain Euclidean distance has r = 0.  Floating point rounding is not     *)
(* modelled.  A call that raises yields a record whose exc field names     *)
(* the exception class.                                                    *)
(*                                                                         *)
(* Strings that the program computes on (class names, registry keys, the   *)
(* error message) are sequences of one-character strings.                  *)
(***************************************************************************)
EXTENDS Integers, Sequences, FiniteSets, TLC

VARIABLES
    data,              \* ShapeFactory.data, the dataset given to __init__
    AVAILABLE_SHAPES,  \* ShapeFactory.AVAILABLE_SHAPES: key -> class name
    shapes,            \* the Shape instances built so far, in build order
    last,              \* the most recent call on the factory or on a shape
    first,             \* the first distance call made on a shape
    point,             \* argument `point` of distance_point_to_line
    line,              \* argument `line` of distance_point_to_line
    dist               \* what that call of distance_point_to_line produced

vars == <<data, AVAILABLE_SHAPES, shapes, last, first, point, line, dist>>

(***************************************************************************)
(* Bounds of the model.                                                    *)
(***************************************************************************)
MaxShapes == 2     \* shape instances alive at once
MaxCoord  == 2     \* segment and point coordinates range over 0..MaxCoord

(***************************************************************************)
(* Exact rational arithmetic.                                              *)
(***************************************************************************)
Abs(i) == IF i < 0 THEN -i ELSE i

RECURSIVE GCD(_, _)
GCD(a, b) == IF b = 0 THEN a ELSE GCD(b, a % b)

Rat(n, d) ==
    IF d = 1 THEN [n |-> n, d |-> 1]
    ELSE LET g == GCD(Abs(n), Abs(d))
             s == IF d < 0 THEN -1 ELSE 1
         IN  [n |-> (s * n) \div g, d |-> (s * d) \div g]

RI(i)      == [n |-> i, d |-> 1]
RAdd(a, b) == Rat(a.n * b.d + b.n * a.d, a.d * b.d)
RSub(a, b) == Rat(a.n * b.d - b.n * a.d, a.d * b.d)
RMul(a, b) == Rat(a.n * b.n, a.d * b.d)
RDiv(a, b) == Rat(a.n * b.d, a.d * b.n)
\* a < b, comparing integer parts first so that no product grows large
RLess(a, b) ==
    LET ia == a.n \div a.d
        ib == b.n \div b.d
    IN  \/ ia < ib
        \/ ia = ib /\ (a.n % a.d) * b.d < (b.n % b.d) * a.d
RSq(a) == RMul(a, a)

(***************************************************************************)
(* Call outcomes.                                                          *)
(***************************************************************************)
NoExc == "none"
Raise(e)   == [exc |-> e, sq |-> RI(0), r |-> 0]
Ret(sq, r) == [exc |-> NoExc, sq |-> sq, r |-> r]
\* the integer literal k >= 0 as a distance value
IntDist(k) == Ret(RI(k * k), 0)

(***************************************************************************)
(* Order on distance values |sqrt(a.sq) - a.r|, exact.                     *)
(*   SumLess(a, b, K):  sqrt(a) + sqrt(b) < K                              *)
(*   DiffLess(a, b, K): sqrt(a) - sqrt(b) < K                              *)
(***************************************************************************)
SumLess(a, b, K) ==
    LET K2 == RSq(K)
        M  == RSub(RAdd(K2, a), b)
    IN  /\ RLess(RI(0), K)
        /\ RLess(a, K2)
        /\ RLess(RI(0), M)
        /\ RLess(RMul(RI(4), RMul(K2, a)), RSq(M))

DiffLess(a, b, K) ==
    LET K2 == RSq(K)
    IN  IF ~RLess(K, RI(0))
        THEN LET N == RSub(RSub(a, K2), b)
             IN  \/ RLess(N, RI(0))
                 \/ RLess(RSq(N), RMul(RI(4), RMul(K2, b)))
        ELSE LET N == RSub(RSub(b, K2), a)
             IN  /\ RLess(RI(0), N)
                 /\ RLess(RMul(RI(4), RMul(K2, a)), RSq(N))

SumGreater(a, b, K) ==
    LET K2 == RSq(K)
        M  == RSub(RAdd(K2, a), b)
    IN  \/ RLess(K, RI(0))
        \/ RLess(K2, a)
        \/ RLess(M, RI(0))
        \/ RLess(RSq(M), RMul(RI(4), RMul(K2, a)))

DistLess(a, b) ==
    IF a.r = 0 /\ b.r = 0 THEN RLess(a.sq, b.sq)
    ELSE LET pa == ~RLess(a.sq, RI(a.r * a.r))   \* sqrt(a.sq) >= a.r
             pb == ~RLess(b.sq, RI(b.r * b.r))
         IN  CASE pa /\ pb   -> DiffLess(a.sq, b.sq, RI(a.r - b.r))
               [] ~pa /\ ~pb -> DiffLess(b.sq, a.sq, RI(b.r - a.r))
               [] pa /\ ~pb  -> SumLess(a.sq, b.sq, RI(a.r + b.r))
               [] ~pa /\ pb  -> SumGreater(a.sq, b.sq, RI(a.r + b.r))

(***************************************************************************)
(* Strings.                                                                *)
(***************************************************************************)
Upper == <<"A","B","C","D","E","F","G","H","I","J","K","L","M",
           "N","O","P","Q","R","S","T","U","V","W","X","Y","Z">>
Lower == <<"a","b","c","d","e","f","g","h","i","j","k","l","m",
           "n","o","p","q","r","s","t","u","v","w","x","y","z">>
\* str.lower(), character by character
lower(s) ==
    [i \in 1..Len(s) |->
        IF \E k \in 1..26 : Upper[k] = s[i]
        THEN Lower[CHOOSE k \in 1..26 : Upper[k] = s[i]]
        ELSE s[i]]

\* class names (cls.__name__)
Circle          == <<"C","i","r","c","l","e">>
Bullseye        == <<"B","u","l","l","s","e","y","e">>
Dots            == <<"D","o","t","s">>
Lines           == <<"L","i","n","e","s">>
XLines          == <<"X","L","i","n","e","s">>
HorizontalLines == <<"H","o","r","i","z","o","n","t","a","l","L","i","n","e","s">>
VerticalLines   == <<"V","e","r","t","i","c","a","l","L","i","n","e","s">>

\* registry keys
k_circle   == <<"c","i","r","c","l","e">>
k_bullseye == <<"b","u","l","l","s","e","y","e">>
k_dots     == <<"d","o","t","s">>
k_x        == <<"x">>
k_h_lines  == <<"h","_","l","i","n","e","s">>
k_v_lines  == <<"v","_","l","i","n","e","s">>

\* the class attribute ShapeFactory.AVAILABLE_SHAPES as written in the source
RegistryTable ==
    (k_circle :> Circle) @@ (k_bullseye :> Bullseye) @@ (k_dots :> Dots) @@
    (k_x :> XLines) @@ (k_h_lines :> HorizontalLines) @@
    (k_v_lines :> VerticalLines)

(***************************************************************************)
(* The dataset: a data frame with named columns of numbers.                *)
(***************************************************************************)
Frame(names, cols) == [columns |-> names, cols |-> cols]

HasCol(df, c) == \E i \in 1..Len(df.columns) : df.columns[i] = c
Col(df, c)    == df.cols[CHOOSE i \in 1..Len(df.columns) : df.columns[i] = c]

RECURSIVE SumSeq(_)
SumSeq(s) == IF s = <<>> THEN 0 ELSE s[1] + SumSeq(Tail(s))

\* Series.mean()
mean(col) == Rat(SumSeq(col), Len(col))

\* Series.min() / Series.max()
colmin(col) == CHOOSE v \in {col[i] : i \in 1..Len(col)} :
                   \A i \in 1..Len(col) : v <= col[i]
colmax(col) == CHOOSE v \in {col[i] : i \in 1..Len(col)} :
                   \A i \in 1..Len(col) : v >= col[i]

\* the column in ascending order
RECURSIVE Sorted(_)
Sorted(col) ==
    IF col = <<>> THEN <<>>
    ELSE LET m == colmin(col)
             k == CHOOSE i \in 1..Len(col) : col[i] = m
         IN  <<m>> \o Sorted(SubSeq(col, 1, k - 1) \o SubSeq(col, k + 1, Len(col)))

\* Series.quantile(q) for q = qn/qd, linear interpolation between the order
\* statistics around position (len - 1) * q
quantile(col, qn, qd) ==
    LET s    == Sorted(col)
        pos  == Rat((Len(col) - 1) * qn, qd)
        lo   == pos.n \div pos.d
        frac == RSub(pos, RI(lo))
        hi   == IF lo + 1 < Len(col) THEN lo + 1 ELSE lo
    IN  RAdd(RI(s[lo + 1]), RMul(frac, RI(s[hi + 1] - s[lo + 1])))

(***************************************************************************)
(* Array arguments of scipy.spatial.distance.euclidean: a nested list or   *)
(* tuple of numbers is kept as its shape and its numbers in row order.     *)
(***************************************************************************)
Vec(s)        == [shape |-> <<Len(s)>>, flat |-> s]
Nested(s)     == [shape |-> <<1, Len(s)>>, flat |-> s]   \* (s,) for a list s
Pt(x, y)      == Vec(<<RI(x), RI(y)>>)

ValueError        == "ValueError"
TypeError         == "TypeError"
KeyError          == "KeyError"
AttributeError    == "AttributeError"

RECURSIVE SumSq(_, _)
SumSq(a, b) ==
    IF a = <<>> THEN RI(0)
    ELSE RAdd(RSq(RSub(a[1], b[1])), SumSq(Tail(a), Tail(b)))

\* Shape._euclidean_distance: scipy rejects arguments that are not 1-D
\* vectors of the same length
euclidean_distance(a, b) ==
    IF Len(a.shape) # 1 \/ Len(b.shape) # 1 \/ a.shape # b.shape
    THEN Raise(ValueError)
    ELSE Ret(SumSq(a.flat, b.flat), 0)

\* min(...) / max(...) over a generator of distance values: the first
\* exception raised while consuming it propagates, ties keep the earlier one
RECURSIVE MinFrom(_, _)
MinFrom(best, s) ==
    IF best.exc # NoExc \/ s = <<>> THEN best
    ELSE IF s[1].exc # NoExc THEN s[1]
    ELSE MinFrom(IF DistLess(s[1], best) THEN s[1] ELSE best, Tail(s))
min(s) == IF s = <<>> THEN Raise(ValueError) ELSE MinFrom(s[1], Tail(s))

\* max that keeps the shorter of the two distances
max_shorter(a, b) ==
    IF a.exc # NoExc THEN a
    ELSE IF b.exc # NoExc THEN b
    ELSE IF DistLess(b, a) THEN b ELSE a

max(a, b) ==
    IF a.exc # NoExc THEN a
    ELSE IF b.exc # NoExc THEN b
    ELSE IF DistLess(a, b) THEN b ELSE a

(***************************************************************************)
(* Shape instances.  One record type for all classes; a field a class      *)
(* does not set keeps the value below.                                     *)
(***************************************************************************)
Obj(cls) == [cls |-> cls, cx |-> RI(0), cy |-> RI(0), r |-> 0,
             circles |-> <<>>, dots |-> <<>>, lines |-> <<>>]
NoObj == Obj(<<>>)

Built(o)   == [exc |-> NoExc, obj |-> o]
Failed(e)  == [exc |-> e, obj |-> NoObj]

CircleRadius  == 30
BullseyeRadii == <<18, 37>>
LinePositions == <<10, 30, 50, 70, 90>>
LineLow  == 0
LineHigh == 100
Sentinel == 9999
EpsInv   == 100000000    \* 1 / 0.00000001
TolInv   == 100000       \* 1 / 0.00001

\* Circle(*args): __init__(self, data) accepts exactly one argument
Circle_init(args) ==
    IF Len(args) # 1 THEN Failed(TypeError)
    ELSE LET d == args[1]
         IN  IF ~HasCol(d, "x") \/ ~HasCol(d, "y") THEN Failed(AttributeError)
             ELSE Built([Obj(Circle) EXCEPT !.cx = mean(Col(d, "x")),
                                            !.cy = mean(Col(d, "y")),
                                            !.r  = CircleRadius])

Circle_distance(self, x, y) ==
    LET e == euclidean_distance(Vec(<<self.cx, self.cy>>), Pt(x, y))
    IN  IF e.exc # NoExc THEN e ELSE Ret(e.sq, self.r)

\* Bullseye(data): builds Circle(data.x.mean(), data.y.mean(), r) for each
\* radius; the first failing element ends the comprehension
Bullseye_init(d) ==
    IF ~HasCol(d, "x") \/ ~HasCol(d, "y") THEN Failed(AttributeError)
    ELSE LET cs == [i \in 1..Len(BullseyeRadii) |->
                       Circle_init(<<mean(Col(d, "x")), mean(Col(d, "y")),
                                     BullseyeRadii[i]>>)]
         IN  IF \E i \in 1..Len(cs) : cs[i].exc # NoExc
             THEN cs[CHOOSE i \in 1..Len(cs) :
                        /\ cs[i].exc # NoExc
                        /\ \A j \in 1..(i - 1) : cs[j].exc = NoExc]
             ELSE Built([Obj(Bullseye) EXCEPT
                            !.circles = [i \in 1..Len(cs) |-> cs[i].obj]])

Bullseye_distance(self, x, y) ==
    min([i \in 1..Len(self.circles) |-> Circle_distance(self.circles[i], x, y)])

\* Dots(data): itertools.product is handed ONE iterable (the generator of the
\* two quantile lists), so it yields one 1-tuple per quantile list
Dots_init(d) ==
    IF ~HasCol(d, "x") \/ ~HasCol(d, "y") THEN Failed(KeyError)
    ELSE LET q(c) == <<quantile(Col(d, c), 5, 100),
                       quantile(Col(d, c), 50, 100),
                       quantile(Col(d, c), 95, 100)>>
         IN  Built([Obj(Dots) EXCEPT !.dots = <<Nested(q("x")), Nested(q("y"))>>])

Dots_distance(self, x, y) ==
    min([i \in 1..Len(self.dots) |-> euclidean_distance(self.dots[i], Pt(x, y))])

\* Lines(*lines)
Lines_init(cls, lines) == Built([Obj(cls) EXCEPT !.lines = lines])

Seg(x1, y1, x2, y2) == <<Pt(x1, y1), Pt(x2, y2)>>

\* distance_point_to_line without the test on line_mag: the division by
\* line_mag * line_mag is reached with a zero divisor
distance_point_to_line_unguarded(pt, ln) ==
    LET start    == ln[1]
        end      == ln[2]
        line_mag == euclidean_distance(start, end)
    IN  IF line_mag.exc # NoExc THEN line_mag
        ELSE IF line_mag.sq.n = 0 THEN Raise("ZeroDivisionError")
        ELSE
          LET px == pt.flat[1]
              py == pt.flat[2]
              x1 == start.flat[1]
              y1 == start.flat[2]
              x2 == end.flat[1]
              y2 == end.flat[2]
              u1 == RAdd(RMul(RSub(px, x1), RSub(x2, x1)),
                         RMul(RSub(py, y1), RSub(y2, y1)))
              u  == RDiv(u1, line_mag.sq)
          IN  IF RLess(u, Rat(1, TolInv)) \/ RLess(RI(1), u)
              THEN max(euclidean_distance(pt, start),
                       euclidean_distance(pt, end))
              ELSE LET ix == RAdd(x1, RMul(u, RSub(x2, x1)))
                       iy == RAdd(y1, RMul(u, RSub(y2, y1)))
                   IN  euclidean_distance(pt, Vec(<<ix, iy>>))

distance_point_to_line(pt, ln) ==
    LET start    == ln[1]
        end      == ln[2]
        line_mag == euclidean_distance(start, end)
    IN  IF line_mag.exc # NoExc THEN line_mag
        ELSE IF line_mag.sq.n <= ((line_mag.sq.d - 1) \div EpsInv) \div EpsInv
        THEN IntDist(Sentinel)
        ELSE
          LET px == pt.flat[1]
              py == pt.flat[2]
              x1 == start.flat[1]
              y1 == start.flat[2]
              x2 == end.flat[1]
              y2 == end.flat[2]
              u1 == RAdd(RMul(RSub(px, x1), RSub(x2, x1)),
                         RMul(RSub(py, y1), RSub(y2, y1)))
              u  == RDiv(u1, line_mag.sq)
          IN  IF RLess(u, Rat(1, TolInv)) \/ RLess(RI(1), u)
              THEN max(euclidean_distance(pt, start),
                       euclidean_distance(pt, end))
              ELSE LET ix == RAdd(x1, RMul(u, RSub(x2, x1)))
                       iy == RAdd(y1, RMul(u, RSub(y2, y1)))
                   IN  euclidean_distance(pt, Vec(<<ix, iy>>))

Lines_distance(self, x, y) ==
    min([i \in 1..Len(self.lines) |->
            distance_point_to_line(Pt(x, y), self.lines[i])])

\* XLines(data): data.min() / data.max() are unpacked by column position
XLines_init(d) ==
    IF Len(d.columns) # 2 THEN Failed(ValueError)
    ELSE LET xmin == colmin(d.cols[1])
             ymin == colmin(d.cols[2])
             xmax == colmax(d.cols[1])
             ymax == colmax(d.cols[2])
         IN  Lines_init(XLines, <<Seg(xmin, ymin, xmax, ymax),
                                  Seg(xmin, ymax, xmax, ymin)>>)

\* HorizontalLines(data): data.min()[['x', 'y']] needs both columns
HorizontalLines_init(d) ==
    IF ~HasCol(d, "x") \/ ~HasCol(d, "y") THEN Failed(KeyError)
    ELSE Lines_init(HorizontalLines,
             [i \in 1..Len(LinePositions) |->
                 Seg(LineLow, LinePositions[i], LineHigh, LinePositions[i])])

VerticalLines_init(d) ==
    IF ~HasCol(d, "x") \/ ~HasCol(d, "y") THEN Failed(KeyError)
    ELSE Lines_init(VerticalLines,
             [i \in 1..Len(LinePositions) |->
                 Seg(LinePositions[i], LineLow, LinePositions[i], LineHigh)])

IsLines(cls) == cls \in {Lines, XLines, HorizontalLines, VerticalLines}

\* cls(data)
Construct(cls, d) ==
    CASE cls = Circle          -> Circle_init(<<d>>)
      [] cls = Bullseye        -> Bullseye_init(d)
      [] cls = Dots            -> Dots_init(d)
      [] cls = XLines          -> XLines_init(d)
      [] cls = HorizontalLines -> HorizontalLines_init(d)
      [] cls = VerticalLines   -> VerticalLines_init(d)

\* shape.distance(x, y)
distance(self, x, y) ==
    CASE self.cls = Circle   -> Circle_distance(self, x, y)
      [] self.cls = Bullseye -> Bullseye_distance(self, x, y)
      [] self.cls = Dots     -> Dots_distance(self, x, y)
      [] IsLines(self.cls)   -> Lines_distance(self, x, y)

\* Shape.__repr__ and its overrides in XLines, HorizontalLines, VerticalLines
\* __repr__ without the overrides of the Lines subclasses
repr_base(cls) == lower(cls)

repr(cls) ==
    CASE cls = XLines          -> k_x
      [] cls = HorizontalLines -> k_h_lines
      [] cls = VerticalLines   -> k_v_lines
      [] OTHER                 -> lower(cls)

(***************************************************************************)
(* ShapeFactory.generate_shape: the lookup AND the constructor call are    *)
(* inside the try block, so a KeyError from either is turned into the      *)
(* ValueError.                                                             *)
(***************************************************************************)
MsgHead == <<"N","o"," ","s","u","c","h"," ","s","h","a","p","e"," ","a","s"," ">>
NoSuchShape(shape) == MsgHead \o shape \o <<".">>

Raised(e, m) == [exc |-> e, msg |-> m, obj |-> NoObj]

\* generate_shape falling back to a circle for a name it does not know
generate_shape_default(table, d, shape) ==
    LET c == Construct(IF shape \in DOMAIN table THEN table[shape] ELSE Circle, d)
    IN  IF c.exc = KeyError THEN Raised(ValueError, NoSuchShape(shape))
        ELSE IF c.exc # NoExc THEN Raised(c.exc, <<>>)
        ELSE [exc |-> NoExc, msg |-> <<>>, obj |-> c.obj]

generate_shape(table, d, shape) ==
    IF shape \notin DOMAIN table
    THEN Raised(ValueError, NoSuchShape(shape))
    ELSE LET c == Construct(table[shape], d)
         IN  IF c.exc = KeyError THEN Raised(ValueError, NoSuchShape(shape))
             ELSE IF c.exc # NoExc THEN Raised(c.exc, <<>>)
             ELSE [exc |-> NoExc, msg |-> <<>>, obj |-> c.obj]

(***************************************************************************)
(* Inputs.                                                                 *)
(***************************************************************************)
Datasets ==
    { Frame(<<"x", "y">>, << <<1>>, <<1>> >>),
      Frame(<<"x", "y">>, << <<0, 2, 2>>, <<1, 0, 2>> >>),
      Frame(<<"u", "v">>, << <<0, 2>>, <<0, 1>> >>) }

\* names asked of the factory: every registered key and two that are not
k_star   == <<"s","t","a","r">>
Names    == DOMAIN RegistryTable \cup {k_star, Circle}

\* (x, y) arguments of shape.distance
ProbePoints == { <<0, 10>>, <<50, 10>> }

\* arguments of distance_point_to_line
Grid     == 0..MaxCoord
Points   == {Pt(x, y) : x \in Grid, y \in Grid}
            \cup {Pt(50, 10), Pt(50, 20), Pt(-10, 10), Pt(-1, 1)}
Segments == {Seg(a, b, c, d) : a \in Grid, b \in Grid, c \in Grid, d \in Grid}
            \cup {Seg(0, 10, 100, 10), Seg(5, 5, 5, 5)}

(***************************************************************************)
(* State.                                                                  *)
(***************************************************************************)
\* a call record; built is the number of shapes built before the call
NoCall == [op |-> "none", name |-> <<>>, id |-> 0, p |-> <<0, 0>>, built |-> 0,
           exc |-> NoExc, msg |-> <<>>, res |-> Raise(NoExc), text |-> <<>>]
NotCalled == Raise("not called")

Init ==
    /\ data \in Datasets
    /\ AVAILABLE_SHAPES = RegistryTable
    /\ shapes = <<>>
    /\ last = NoCall
    /\ first = NoCall
    /\ point = Pt(0, 0)
    /\ line = Seg(0, 0, 0, 0)
    /\ dist = NotCalled

\* factory.generate_shape(name)
GenerateShape(name) ==
    LET o == generate_shape(AVAILABLE_SHAPES, data, name)
    IN  /\ o.exc = NoExc => Len(shapes) < MaxShapes
        /\ shapes' = IF o.exc = NoExc THEN Append(shapes, o.obj) ELSE shapes
        /\ last' = [NoCall EXCEPT !.op = "generate_shape", !.name = name,
                        !.built = Len(shapes),
                        !.id  = IF o.exc = NoExc THEN Len(shapes) + 1 ELSE 0,
                        !.exc = o.exc, !.msg = o.msg]
        /\ UNCHANGED <<data, AVAILABLE_SHAPES, first, point, line, dist>>

\* a distance call that remembers the queried x as the shape's cx
Distance_storing(i, p) ==
    LET res == distance(shapes[i], p[1], p[2])
        c   == [NoCall EXCEPT !.op = "distance", !.id = i, !.p = p,
                              !.built = Len(shapes),
                              !.exc = res.exc, !.res = res]
    IN  /\ last' = c
        /\ first' = IF first.op = "none" THEN c ELSE first
        /\ shapes' = [shapes EXCEPT ![i].cx = RI(p[1])]
        /\ UNCHANGED <<data, AVAILABLE_SHAPES, point, line, dist>>

\* shapes[i].distance(x, y)
Distance(i, p) ==
    LET res == distance(shapes[i], p[1], p[2])
        c   == [NoCall EXCEPT !.op = "distance", !.id = i, !.p = p,
                              !.built = Len(shapes),
                              !.exc = res.exc, !.res = res]
    IN  /\ last' = c
        /\ first' = IF first.op = "none" THEN c ELSE first
        /\ UNCHANGED <<data, AVAILABLE_SHAPES, shapes, point, line, dist>>

\* str(shapes[i])
Str(i) ==
    /\ last' = [NoCall EXCEPT !.op = "str", !.id = i, !.built = Len(shapes),
                              !.text = repr(shapes[i].cls)]
    /\ UNCHANGED <<data, AVAILABLE_SHAPES, shapes, first, point, line, dist>>

Next ==
    \/ \E name \in Names : GenerateShape(name)
    \/ \E i \in 1..Len(shapes), p \in ProbePoints : Distance(i, p)
    \/ \E i \in 1..Len(shapes) : Str(i)

Spec == Init /\ [][Next]_vars

(***************************************************************************)
(* distance_point_to_line on its own: one call on arbitrary arguments.     *)
(***************************************************************************)
InitLine ==
    /\ data \in {d \in Datasets : Len(d.cols[1]) = 1}
    /\ AVAILABLE_SHAPES = RegistryTable
    /\ shapes = <<>>
    /\ last = NoCall
    /\ first = NoCall
    /\ point \in Points
    /\ line \in Segments
    /\ dist = NotCalled

DistancePointToLine ==
    /\ dist' = distance_point_to_line(point, line)
    /\ UNCHANGED <<data, AVAILABLE_SHAPES, shapes, last, first, point, line>>

NextLine == DistancePointToLine

SpecLine == InitLine /\ [][NextLine]_vars

(***************************************************************************)
(* Properties.                                                             *)
(***************************************************************************)
HasXY(d) == HasCol(d, "x") /\ HasCol(d, "y")
Zero == Ret(RI(0), 0)

\* C1: a name that is not a key of AVAILABLE_SHAPES makes generate_shape
\* raise ValueError('No such shape as <name>.') and return no shape.
C1_UnknownNameRaises ==
    (last.op = "generate_shape" /\ last.name \notin DOMAIN AVAILABLE_SHAPES)
        => /\ last.exc = ValueError
           /\ last.id = 0
           /\ Len(last.msg) = Len(last.name) + 18
           /\ SubSeq(last.msg, 1, 17) =
                <<"N","o"," ","s","u","c","h"," ","s","h","a","p","e"," ","a","s"," ">>
           /\ SubSeq(last.msg, 18, Len(last.msg) - 1) = last.name
           /\ last.msg[Len(last.msg)] = "."

C1_Witness ==
    /\ last.op = "generate_shape"
    /\ last.name = <<"s","t","a","r">>
    /\ last.exc = ValueError
    /\ last.msg = <<"N","o"," ","s","u","c","h"," ","s","h","a","p","e"," ",
                    "a","s"," ","s","t","a","r",".">>
    /\ Len(shapes) = 1

\* C2: on a dataset with x and y columns generate_shape('bullseye') returns a
\* Bullseye of two circles centred on the per-axis mean with radii 18 and 37,
\* whose distance is the smaller of the two circles' distances.
C2_BullseyeBuilt ==
    (last.op = "generate_shape" /\ last.name = k_bullseye /\ HasXY(data))
        => /\ last.exc = NoExc
           /\ last.id \in 1..Len(shapes)
           /\ LET b == shapes[last.id]
              IN  /\ b.cls = Bullseye
                  /\ Len(b.circles) = 2
                  /\ \A i \in 1..2 :
                        /\ b.circles[i].cx = mean(Col(data, "x"))
                        /\ b.circles[i].cy = mean(Col(data, "y"))
                  /\ b.circles[1].r = 18
                  /\ b.circles[2].r = 37
                  /\ \A p \in ProbePoints :
                        LET d1 == Circle_distance(b.circles[1], p[1], p[2])
                            d2 == Circle_distance(b.circles[2], p[1], p[2])
                        IN  distance(b, p[1], p[2]) =
                                IF DistLess(d2, d1) THEN d2 ELSE d1

\* the 3 x 3 grid of the 5th/50th/95th percentiles of x and of y
QuantileSet(c) == { quantile(Col(data, c), 5, 100),
                    quantile(Col(data, c), 50, 100),
                    quantile(Col(data, c), 95, 100) }
QuantileGrid == { Vec(<<qx, qy>>) : qx \in QuantileSet("x"), qy \in QuantileSet("y") }

\* C3: the dots of a Dots shape are the 9 points of the quantile grid, and
\* Dots.distance(p) is the least Euclidean distance from p to one of them.
C3_DotsGrid ==
    /\ \A i \in 1..Len(shapes) :
          shapes[i].cls = Dots =>
              /\ Len(shapes[i].dots) = 9
              /\ {shapes[i].dots[k] : k \in 1..Len(shapes[i].dots)} = QuantileGrid
    /\ (last.op = "distance" /\ shapes[last.id].cls = Dots) =>
          /\ last.exc = NoExc
          /\ \E g \in QuantileGrid :
                last.res = euclidean_distance(g, Pt(last.p[1], last.p[2]))
          /\ \A g \in QuantileGrid :
                ~DistLess(euclidean_distance(g, Pt(last.p[1], last.p[2])), last.res)

\* integer coordinates of a point or a segment end
CX(v) == v.flat[1].n
CY(v) == v.flat[2].n
\* p lies on the non-degenerate segment ln
OnSegment(px, py, ln) ==
    LET dx  == CX(ln[2]) - CX(ln[1])
        dy  == CY(ln[2]) - CY(ln[1])
        ax  == px - CX(ln[1])
        ay  == py - CY(ln[1])
    IN  /\ dx # 0 \/ dy # 0
        /\ ax * dy - ay * dx = 0
        /\ 0 <= ax * dx + ay * dy
        /\ ax * dx + ay * dy <= dx * dx + dy * dy

\* C4: a point on a non-degenerate segment of a Lines shape, end points
\* included, is at distance 0 from the shape.
C4_OnSegmentIsZero ==
    (/\ last.op = "distance"
     /\ IsLines(shapes[last.id].cls)
     /\ \E k \in 1..Len(shapes[last.id].lines) :
            OnSegment(last.p[1], last.p[2], shapes[last.id].lines[k]))
        => last.res = Zero

\* C5: distance_point_to_line((-10, 10), [(0, 10), (100, 10)]) is 10.
C5_OutsideProjection ==
    (/\ dist # NotCalled
     /\ line = Seg(0, 10, 100, 10)
     /\ point = Pt(-10, 10))
        => dist = Ret(RI(100), 0)

\* C6: for a segment whose start equals its end, distance_point_to_line
\* returns 9999 for every point and raises nothing.
C6_DegenerateSentinel ==
    (dist # NotCalled /\ line[1] = line[2])
        => dist = [exc |-> NoExc, sq |-> RI(99980001), r |-> 0]

C6_Witness ==
    /\ line = Seg(5, 5, 5, 5)
    /\ point = Pt(50, 20)
    /\ dist = [exc |-> NoExc, sq |-> RI(99980001), r |-> 0]

\* C7: for every key n of AVAILABLE_SHAPES the render name of the class
\* registered under n is n, so str(shape) looks the shape's class up again.
C7_ReprIsKey ==
    /\ \A n \in DOMAIN AVAILABLE_SHAPES : repr(AVAILABLE_SHAPES[n]) = n
    /\ last.op = "str" =>
          /\ last.text \in DOMAIN AVAILABLE_SHAPES
          /\ AVAILABLE_SHAPES[last.text] = shapes[last.id].cls

C7_Witness ==
    /\ last.op = "str"
    /\ shapes[last.id].cls = XLines
    /\ last.text = <<"x">>

\* C8: no call changes the fields of a shape already built nor the
\* AVAILABLE_SHAPES table, and a distance call repeated on the same shape
\* with the same coordinates returns what the first one returned.
C8_ShapesImmutable ==
    /\ [][/\ AVAILABLE_SHAPES' = AVAILABLE_SHAPES
          /\ Len(shapes') >= Len(shapes)
          /\ \A i \in 1..Len(shapes) : shapes'[i] = shapes[i]]_vars
    /\ []((/\ first.op = "distance"
           /\ last.op = "distance"
           /\ last.id = first.id
           /\ last.p = first.p) => last.res = first.res)

\* a Circle queried, another shape built, the Circle queried again
C8_Witness ==
    /\ first.op = "distance"
    /\ shapes[first.id].cls = Circle
    /\ first.exc = NoExc
    /\ first.built = 1
    /\ last.op = "distance"
    /\ last.built = 2
    /\ last.id = first.id
    /\ last.p = first.p
    /\ last.res = first.res

\* the two squared end point distances and the squared distance to the
\* foot of the perpendicular, in integers
EndSq(pt, e)  == (CX(pt) - CX(e)) * (CX(pt) - CX(e)) + (CY(pt) - CY(e)) * (CY(pt) - CY(e))
LenSq(ln)     == EndSq(ln[1], ln[2])
Dot(pt, ln)   == (CX(pt) - CX(ln[1])) * (CX(ln[2]) - CX(ln[1]))
                 + (CY(pt) - CY(ln[1])) * (CY(ln[2]) - CY(ln[1]))
Cross(pt, ln) == (CX(pt) - CX(ln[1])) * (CY(ln[2]) - CY(ln[1]))
                 - (CY(pt) - CY(ln[1])) * (CX(ln[2]) - CX(ln[1]))
OutsideU(pt, ln) == Dot(pt, ln) * 100000 < LenSq(ln) \/ Dot(pt, ln) > LenSq(ln)
Larger(a, b) == IF a > b THEN a ELSE b

C10_OnlyUnknownNames ==
    (/\ last.op = "generate_shape"
     /\ last.exc = ValueError
     /\ last.msg = NoSuchShape(last.name))
        => last.name \notin DOMAIN AVAILABLE_SHAPES

====
